---- MODULE Spec2Model ----
(***************************************************************************)
(* Model of the mood-journal service (src/app.py): the /submit, /entries   *)
(* and /health handlers, the schema bootstrap init_db, and the             *)
(* multi-strategy MongoDB connection wrapped in a bounded retry.           *)
(*                                                                         *)
(* The inference service and the database are environments: what the       *)
(* inference service answers to the successive attempts of one submission  *)
(* (hfScript, hfPayload) and the outcome of every connection strategy and  *)
(* database command are drawn nondeterministically.                        *)
(***************************************************************************)
EXTENDS Integers, Sequences, FiniteSets, TLC

\* ------------------------------------------------------------------ bounds
\* confidences are 0..MaxScore (a scale of the classifier's [0,1])
MaxScore == 1
\* longest list of {label, score} pairs the inference service returns
MaxLen == 2
\* entries the store may hold
MaxEntries == 2
\* readings of datetime.now() range over 0..MaxClock
MaxClock == 2
\* clients that may be left open before further leaking outcomes are cut off
MaxOpen == 1
\* successive attempts of one submission for which the inference service's
\* answers are laid down (the retry budget the specification speaks of)
MaxAttempts == 3
\* clock readings per second: strftime("%Y-%m-%d %H:%M:%S") drops the rest
TicksPerSecond == 2

\* ------------------------------------------------------------ configuration
VARIABLES
    HF_API_KEY,      \* TRUE iff the HF_API_KEY environment variable is set
    MONGO_URI        \* TRUE iff the MONGO_URI environment variable is set

\* ---------------------------------------------------------------- database
VARIABLES
    collections,     \* names of the collections that exist in DB_NAME
    entries,         \* documents of db.entries, in insertion order
    openClients,     \* MongoClient objects constructed and not yet closed
    now              \* the clock datetime.datetime.now() reads: it moves on
                     \* (or is seen to have moved on) where a handler reads it

\* ------------------------------------------------ the request being handled
VARIABLES
    op,              \* "idle", "submit", "entries", "health", "init_db"
    pc,              \* "idle", "connect", "use", "create", "done"
    entry,           \* submit_entry: the submitted text
    result,          \* submit_entry: the (unwrapped) classifier payload
    dominant,        \* submit_entry: max(result, key = score)
    label,           \* submit_entry: dominant['label']
    score_value,     \* submit_entry: the signed score
    attempt_number,  \* retrying: the pass of get_db_connection under way
    method,          \* get_db_connection: index of the strategy tried next
    client,          \* name of the strategy whose client is held, or ""
    resp             \* the response returned by the handler

\* ----------------------------------------------- what a test double records
VARIABLES
    hfScript,        \* answers of the inference service to attempts 1, 2, ...
    hfPayload,       \* the JSON body that goes with an HTTP 2xx answer
    hfCalls,         \* requests.post calls made by the request
    calls,           \* connection strategies invoked by the request, in
                     \* order, each with "ok" or "failed"
    command,         \* how the request's database command ended: "ok",
                     \* "error", "CollectionInvalid", or "" when none was issued
    classified_at    \* what the clock showed when submit_entry had its
                     \* classification (lines 236-242)

vars == << HF_API_KEY, MONGO_URI, collections, entries, openClients, now,
           op, pc, entry, result, dominant, label, score_value,
           attempt_number, method, client, resp,
           hfScript, hfPayload, hfCalls, calls, command, classified_at >>

\* --------------------------------------------------------------- JSON values
JList(s) == [t |-> "list", v |-> s]
JDict(d) == [t |-> "dict", v |-> d]
None == [t |-> "none", v |-> <<>>]
Pair(l, c) == JDict([label |-> l, score |-> c])

Labels == {"POSITIVE", "NEGATIVE", "NEUTRAL"}
Confidences == 0..MaxScore
Pairs == {Pair(l, c) : l \in Labels, c \in Confidences}

SeqsUpTo(S, n) == UNION {[1..k -> S] : k \in 1..n}

\* the classifier scores each label once
DistinctLabels(s) == \A i, k \in 1..Len(s) : s[i].v.label = s[k].v.label => i = k

\* well-formed bodies: a flat list of pairs, or one such list nested once
FlatLists == {JList(s) : s \in {q \in SeqsUpTo(Pairs, MaxLen) : DistinctLabels(q)}}
NestedLists == {JList(<<f>>) : f \in FlatLists}

\* malformed bodies
Malformed ==
    { JList(<<>>),                                        \* empty list
      JList(<<JList(<<>>)>>),                             \* nested empty list
      JDict([error |-> "Model is loading"]),              \* non-list top level
      JDict(<<>>),                                        \* empty object
      JList(<<JDict([score |-> MaxScore])>>),             \* no label
      JList(<<JDict([label |-> "POSITIVE"])>>),           \* no score
      JList(<<Pair("POSITIVE", MaxScore), JDict([score |-> 0])>>),
      JList(<<JDict([score |-> MaxScore]), Pair("NEGATIVE", 0)>>),
      JList(<<Pair("NEGATIVE", MaxScore), JDict([label |-> "POSITIVE"])>>) }

Payloads == FlatLists \cup NestedLists \cup Malformed

\* --------------------------------------------- submit_entry: classification
JStr == [t |-> "str", v |-> <<>>]

\* result[0] is a list, for a result that is a list (line 237); "IndexError"
\* when the list is empty
FirstIsList(j) ==
    IF Len(j.v) = 0 THEN "IndexError"
    ELSE IF j.v[1].t = "list" THEN "yes" ELSE "no"

\* a normalisation that leaves a nested list as it came
Unwrap_never(j) == [exc |-> "", value |-> j]

\* lines 236-238: unwrap one level of nesting
Unwrap(j) ==
    IF j.t # "list" THEN [exc |-> "", value |-> j]
    ELSE IF FirstIsList(j) = "IndexError" THEN [exc |-> "IndexError", value |-> j]
    ELSE IF FirstIsList(j) = "yes" THEN [exc |-> "", value |-> j.v[1]]
    ELSE [exc |-> "", value |-> j]

\* what iterating a value yields: the items of a list, the keys of a dict
Items(j) ==
    IF j.t = "list" THEN j.v
    ELSE [i \in 1..Cardinality(DOMAIN j.v) |-> JStr]

\* the exception x['score'] raises, "" when it raises none
ScoreKey(x) ==
    IF x.t # "dict" THEN "TypeError"
    ELSE IF "score" \in DOMAIN x.v THEN "" ELSE "KeyError"

\* a max that lets a later item of equal key replace the best so far
RECURSIVE MaxFrom_last(_, _, _)
MaxFrom_last(items, i, best) ==
    IF i > Len(items) THEN best
    ELSE IF items[i].v.score >= best.v.score
         THEN MaxFrom_last(items, i + 1, items[i])
         ELSE MaxFrom_last(items, i + 1, best)

\* max keeps the first item whose key no later key exceeds
RECURSIVE MaxFrom(_, _, _)
MaxFrom(items, i, best) ==
    IF i > Len(items) THEN best
    ELSE IF items[i].v.score > best.v.score
         THEN MaxFrom(items, i + 1, items[i])
         ELSE MaxFrom(items, i + 1, best)

\* line 240: max(result, key=lambda x: x['score'])
PyMax(j) ==
    IF j.t \notin {"list", "dict"} THEN [exc |-> "TypeError", value |-> None]
    ELSE LET items == Items(j)
             bad == {i \in 1..Len(items) : ScoreKey(items[i]) # ""}
         IN  IF Len(items) = 0 THEN [exc |-> "ValueError", value |-> None]
             ELSE IF bad # {}
                  THEN [exc |-> ScoreKey(items[CHOOSE i \in bad : \A k \in bad : i <= k]),
                        value |-> None]
                  ELSE [exc |-> "", value |-> MaxFrom(items, 2, items[1])]

\* a sign convention turned round
signed_score_flipped(l, c) == IF l = "POSITIVE" THEN 0 - c ELSE c

\* line 242: the signed score
signed_score(l, c) == IF l = "POSITIVE" THEN c ELSE 0 - c

Failed(e) ==
    [exc |-> e, result |-> None, dominant |-> None, label |-> "", score_value |-> 0]

\* lines 236-242: from the JSON body to result, dominant, label, score_value
Classify(payload) ==
    LET u == Unwrap(payload) IN
    IF u.exc # "" THEN Failed(u.exc)
    ELSE LET m == PyMax(u.value) IN
         IF m.exc # "" THEN Failed(m.exc)
         ELSE IF "label" \notin DOMAIN m.value.v THEN Failed("KeyError")
         ELSE [exc |-> "", result |-> u.value, dominant |-> m.value,
               label |-> m.value.v.label,
               score_value |-> signed_score(m.value.v.label, m.value.v.score)]

\* ------------------------------------------------- the inference service
HttpResp(code) == [raised |-> FALSE, status_code |-> code]
\* requests.post raises instead of returning (connection reset, timeout)
Timeout == [raised |-> TRUE, status_code |-> 0]

Retryable == {HttpResp(429), Timeout}
Terminal == {HttpResp(200), HttpResp(201), HttpResp(503)}
Answers == Retryable \cup Terminal

\* the answers to successive attempts: an attempt follows only an answer
\* that asks for a retry
Scripts ==
    {s \in SeqsUpTo(Answers, MaxAttempts) :
        /\ \A i \in 1..(Len(s) - 1) : s[i] \in Retryable
        /\ Len(s) < MaxAttempts => s[Len(s)] \in Terminal}

\* some attempt is answered 2xx, with a JSON body
HasOk(s) == \E i \in 1..Len(s) : ~s[i].raised /\ s[i].status_code \in 200..299

\* ------------------------------------------------------------- the request
\* request.form.get("entry") or request.json.get("entry"): absent, or a text
Missing == "<missing>"
Texts == {Missing, "", "  ", "good day"}
\* Python truthiness of the entry (line 225)
Truthy(e) == e \notin {Missing, ""}

\* --------------------------------------------------------------- responses
NoResp == [status |-> 0, body |-> <<>>]
ErrorResp(code, msg) == [status |-> code, body |-> [error |-> msg]]
SubmitOk(r, db_success) ==
    [status |-> 200,
     body |-> [result |-> r,
               storage_status |-> IF db_success THEN "stored" ELSE "not_stored"]]

\* ------------------------------------------------------ connection strategies
connection_methods ==
    << "try_connection_with_certifi", "try_connection_with_ssl_context",
       "try_connection_without_ssl_validation", "try_connection_direct" >>

\* @retry(stop_max_attempt_number=3, wait_fixed=2000)
stop_max_attempt_number == 3

\* a strategy returns a client ("ok"), raises before a client exists
\* ("client_error"), or raises from the ping of the client it constructed
\* ("ping_error")
Outcomes == {"ok", "client_error", "ping_error"}

\* --------------------------------------------------------------------- Init
Init ==
    /\ HF_API_KEY \in BOOLEAN
    /\ MONGO_URI \in BOOLEAN
    /\ collections = {}
    /\ entries = <<>>
    /\ openClients = 0
    /\ now = 0
    /\ op = "idle"
    /\ pc = "idle"
    /\ entry = Missing
    /\ result = None
    /\ dominant = None
    /\ label = ""
    /\ score_value = 0
    /\ attempt_number = 0
    /\ method = 0
    /\ client = ""
    /\ resp = NoResp
    /\ hfScript = <<>>
    /\ hfPayload = None
    /\ hfCalls = 0
    /\ calls = <<>>
    /\ command = ""
    /\ classified_at = 0

db_vars == << collections, entries, openClients, now >>
cfg_vars == << HF_API_KEY, MONGO_URI >>
submit_locals == << entry, result, dominant, label, score_value, classified_at >>
hf_vars == << hfScript, hfPayload, hfCalls >>
conn_vars == << attempt_number, method, client >>

\* the handler returns r
Return(r) ==
    /\ resp' = r
    /\ pc' = "done"

\* the handler goes on to get_db_connection_retry()
Connect ==
    /\ pc' = "connect"
    /\ attempt_number' = 1
    /\ method' = 1
    /\ client' = ""
    /\ resp' = NoResp

\* --------------------------------------------------------- POST /submit
\* a submit_entry that does not look at HF_API_KEY before it calls
Rejection_no_key_check(text) ==
    IF ~Truthy(text) THEN ErrorResp(400, "No entry provided")
    ELSE NoResp

\* lines 225-229: the answer that ends the request before any call is
\* made, NoResp when the request goes on
Rejection(text) ==
    IF ~Truthy(text) THEN ErrorResp(400, "No entry provided")
    ELSE IF ~HF_API_KEY THEN ErrorResp(500, "Hugging Face API key is missing")
    ELSE NoResp

\* the locals of lines 236-242 are not bound
Unclassified == UNCHANGED << result, dominant, label, score_value, classified_at, conn_vars >>

\* lines 223-246: validation, the call of the inference service, the
\* normalisation of its answer, and the decision to store
submit_entry(text, script, payload) ==
    /\ pc = "idle"
    /\ Len(entries) < MaxEntries
    /\ op' = "submit"
    /\ entry' = text
    /\ hfScript' = script
    /\ hfPayload' = payload
    /\ calls' = <<>>
    /\ command' = ""
    /\ UNCHANGED << db_vars, cfg_vars >>
    /\ IF Rejection(text) # NoResp
       THEN /\ Return(Rejection(text))
            /\ hfCalls' = 0
            /\ Unclassified
       ELSE /\ hfCalls' = 1
            /\ IF script[1].raised
               THEN /\ Return(ErrorResp(500, "Timeout"))
                    /\ Unclassified
               ELSE IF script[1].status_code # 200
               THEN /\ Return(ErrorResp(script[1].status_code, "Hugging Face API error"))
                    /\ Unclassified
               ELSE LET c == Classify(payload) IN
                    IF c.exc # ""
                    THEN /\ Return(ErrorResp(500, c.exc))
                         /\ Unclassified
                    ELSE /\ result' = c.result
                         /\ dominant' = c.dominant
                         /\ label' = c.label
                         /\ score_value' = c.score_value
                         /\ classified_at' = now
                         /\ IF MONGO_URI
                            THEN Connect
                            ELSE /\ Return(SubmitOk(c.result, FALSE))
                                 /\ UNCHANGED conn_vars

\* ------------------------------------------- what each handler's except does
\* a submit_entry whose storage failure reaches the outer except (line 266)
OnError_propagates(o, msg) ==
    IF o \in {"submit", "entries"} THEN ErrorResp(500, msg)
    ELSE IF o = "health"
         THEN [status |-> 500,
               body |-> [status |-> "unhealthy", database |-> "disconnected"]]
    ELSE NoResp

\* submit_entry lines 258-264, get_entries lines 285-287, health_check lines
\* 188-194, init_db lines 161-162
OnError(o, msg) ==
    IF o = "submit" THEN SubmitOk(result, FALSE)
    ELSE IF o = "entries" THEN ErrorResp(500, msg)
    ELSE IF o = "health"
         THEN [status |-> 500,
               body |-> [status |-> "unhealthy", database |-> "disconnected"]]
    ELSE NoResp

\* ------------------------------------------------ get_db_connection_retry
\* a loop that does not return at the first success: it goes on to the
\* strategies left and returns the client of the last one
AfterMethod_no_return(outcome, m, a) ==
    IF m < Len(connection_methods)
    THEN [to |-> "connect", method |-> m + 1, attempt_number |-> a]
    ELSE IF outcome = "ok" THEN [to |-> "use", method |-> m, attempt_number |-> a]
    ELSE IF a < stop_max_attempt_number
         THEN [to |-> "connect", method |-> 1, attempt_number |-> a + 1]
    ELSE [to |-> "raise", method |-> m, attempt_number |-> a]

\* a retry that stops one pass later than stop_max_attempt_number
AfterMethod_one_more(outcome, m, a) ==
    IF outcome = "ok" THEN [to |-> "use", method |-> m, attempt_number |-> a]
    ELSE IF m < Len(connection_methods)
         THEN [to |-> "connect", method |-> m + 1, attempt_number |-> a]
    ELSE IF a <= stop_max_attempt_number
         THEN [to |-> "connect", method |-> 1, attempt_number |-> a + 1]
    ELSE [to |-> "raise", method |-> m, attempt_number |-> a]

\* where the loop of get_db_connection (lines 52-61) and the retry around it
\* (line 141) go after strategy m of pass a ended with outcome
AfterMethod(outcome, m, a) ==
    IF outcome = "ok" THEN [to |-> "use", method |-> m, attempt_number |-> a]
    ELSE IF m < Len(connection_methods)
         THEN [to |-> "connect", method |-> m + 1, attempt_number |-> a]
    ELSE IF a < stop_max_attempt_number
         THEN [to |-> "connect", method |-> 1, attempt_number |-> a + 1]
    ELSE [to |-> "raise", method |-> m, attempt_number |-> a]

\* one strategy is invoked: lines 52-59 with lines 63-139
try_connection(outcome) ==
    /\ pc = "connect"
    /\ outcome = "ping_error" => openClients < MaxOpen
    /\ calls' = Append(calls, [name |-> connection_methods[method],
                                outcome |-> IF outcome = "ok" THEN "ok" ELSE "failed"])
    /\ openClients' = IF outcome = "client_error" THEN openClients ELSE openClients + 1
    /\ LET n == AfterMethod(outcome, method, attempt_number) IN
       /\ method' = n.method
       /\ attempt_number' = n.attempt_number
       /\ client' = IF outcome = "ok" THEN connection_methods[method] ELSE ""
       /\ IF n.to = "raise"
          THEN Return(OnError(op, "All connection methods failed"))
          ELSE /\ pc' = n.to
               /\ UNCHANGED resp
    /\ UNCHANGED << cfg_vars, collections, entries, now, op, submit_locals,
                    hf_vars, command >>

\* client.close() after a command that succeeded
Close ==
    /\ openClients' = openClients - 1
    /\ client' = ""

\* a command that raises leaves the client open: no handler closes it in
\* its except clause
Leak ==
    /\ openClients - 1 < MaxOpen
    /\ UNCHANGED << openClients, client >>

\* an insert whose document is written even when insert_one raises
insert_one_blind(outcome, t) ==
    /\ pc = "use"
    /\ op = "submit"
    /\ command' = outcome
    /\ now' = t
    /\ entries' = Append(entries,
          [entry |-> entry, timestamp |-> t, label |-> label,
           score |-> score_value])
    /\ collections' = collections \cup {"entries"}
    /\ IF outcome = "ok"
       THEN /\ Close
            /\ Return(SubmitOk(result, TRUE))
       ELSE /\ Leak
            /\ Return(OnError(op, "insert failed"))
    /\ UNCHANGED << cfg_vars, op, submit_locals, hf_vars, calls, attempt_number, method >>

\* lines 249-257: the insert, with the timestamp t read at the insert; the
\* reading of an insert that raises is dropped with its document
insert_one(outcome, t) ==
    /\ pc = "use"
    /\ op = "submit"
    /\ command' = outcome
    /\ IF outcome = "ok"
       THEN /\ now' = t
            /\ entries' = Append(entries,
                  [entry |-> entry, timestamp |-> t, label |-> label,
                   score |-> score_value])
            /\ collections' = collections \cup {"entries"}
            /\ Close
            /\ Return(SubmitOk(result, TRUE))
       ELSE /\ Leak
            /\ Return(OnError(op, "insert failed"))
            /\ UNCHANGED << entries, collections, now >>
    /\ UNCHANGED << cfg_vars, op, submit_locals, hf_vars, calls, attempt_number, method >>

\* ------------------------------------------------- other workers' requests
\* the handler followed step by step shares the database with the other
\* threads and processes that run this program; of their requests only
\* what they do to the database is kept, each as one step
request_vars == << op, pc, submit_locals, conn_vars, resp, hf_vars, calls, command >>

\* room the store keeps for the document of the submission under way
Reserved == IF op = "submit" /\ pc \in {"connect", "use"} THEN 1 ELSE 0

\* lines 249-254 in another worker's submit_entry: its document arrives
\* with the timestamp t that worker read, at or before the present
peer_insert_one(t, l, c) ==
    /\ MONGO_URI
    /\ pc \in {"idle", "connect", "use", "create"}
    /\ pc = "create" => openClients - 1 < MaxOpen
    /\ Len(entries) + Reserved < MaxEntries
    /\ entries' = Append(entries,
          [entry |-> "good day", timestamp |-> t, label |-> l,
           score |-> signed_score(l, c)])
    /\ collections' = collections \cup {"entries"}
    /\ UNCHANGED << cfg_vars, openClients, now, request_vars >>

\* lines 157-158 in another process's init_db, between this one's look at
\* the collection names and its create_collection
peer_create_collection ==
    /\ MONGO_URI
    /\ pc = "create"
    /\ openClients - 1 < MaxOpen
    /\ "entries" \notin collections
    /\ collections' = collections \cup {"entries"}
    /\ UNCHANGED << cfg_vars, entries, openClients, now, request_vars >>

\* ---------------------------------------------------------- GET /entries
\* strftime("%Y-%m-%d %H:%M:%S"): the timestamp cut to the second
strftime(ts) == ts \div TicksPerSecond

\* sort("timestamp", 1): ascending, entries of equal timestamp keep their order
RECURSIVE InsertSorted(_, _)
InsertSorted(sorted, e) ==
    IF sorted = <<>> THEN <<e>>
    ELSE IF sorted[Len(sorted)].timestamp <= e.timestamp THEN Append(sorted, e)
    ELSE Append(InsertSorted(SubSeq(sorted, 1, Len(sorted) - 1), e), sorted[Len(sorted)])

\* a find without the sort: the documents in insertion order
SortByTimestamp_none(docs) == docs

RECURSIVE SortByTimestamp(_)
SortByTimestamp(docs) ==
    IF docs = <<>> THEN <<>>
    ELSE InsertSorted(SortByTimestamp(SubSeq(docs, 1, Len(docs) - 1)), docs[Len(docs)])

\* lines 284: the body of a successful /entries
EntriesOk(rows) ==
    [status |-> 200,
     body |-> [labels |-> [i \in 1..Len(rows) |-> strftime(rows[i].timestamp)],
               scores |-> [i \in 1..Len(rows) |-> rows[i].score],
               count |-> Len(rows)]]

\* a handler other than submit_entry starts: nothing of a submission is held
Begin(o) ==
    /\ pc = "idle"
    /\ op' = o
    /\ calls' = <<>>
    /\ command' = ""
    /\ UNCHANGED << db_vars, cfg_vars, submit_locals, hf_vars >>

\* a get_entries without the check of MONGO_URI
get_entries_unguarded ==
    /\ Begin("entries")
    /\ Connect

\* lines 270-276
get_entries ==
    /\ Begin("entries")
    /\ IF ~MONGO_URI
       THEN /\ Return(ErrorResp(400, "MongoDB not configured"))
            /\ UNCHANGED conn_vars
       ELSE Connect

\* lines 277-287
find(outcome) ==
    /\ pc = "use"
    /\ op = "entries"
    /\ command' = outcome
    /\ IF outcome = "ok"
       THEN /\ Close
            /\ Return(EntriesOk(SortByTimestamp(entries)))
       ELSE /\ Leak
            /\ Return(OnError(op, "find failed"))
    /\ UNCHANGED << cfg_vars, collections, entries, now, op, submit_locals,
                    hf_vars, calls, attempt_number, method >>

\* ----------------------------------------------------------- GET /health
\* lines 171-180
health_check ==
    /\ Begin("health")
    /\ IF ~MONGO_URI
       THEN /\ Return([status |-> 200,
                       body |-> [status |-> "degraded", database |-> "not_configured"]])
            /\ UNCHANGED conn_vars
       ELSE Connect

\* lines 181-194
dbstats(outcome) ==
    /\ pc = "use"
    /\ op = "health"
    /\ command' = outcome
    /\ IF outcome = "ok"
       THEN /\ Close
            /\ Return([status |-> 200,
                       body |-> [status |-> "healthy", database |-> "connected"]])
       ELSE /\ Leak
            /\ Return(OnError(op, "dbstats failed"))
    /\ UNCHANGED << cfg_vars, collections, entries, now, op, submit_locals,
                    hf_vars, calls, attempt_number, method >>

\* ---------------------------------------------------------------- init_db
\* lines 145-151
init_db ==
    /\ Begin("init_db")
    /\ IF ~MONGO_URI
       THEN /\ Return(NoResp)
            /\ UNCHANGED conn_vars
       ELSE Connect

\* lines 152-157 and 160-162: the look at the names of the collections
list_collection_names(outcome) ==
    /\ pc = "use"
    /\ op = "init_db"
    /\ command' = outcome
    /\ IF outcome = "ok"
       THEN IF "entries" \notin collections
            THEN /\ pc' = "create"
                 /\ UNCHANGED << openClients, client, resp >>
            ELSE /\ Close
                 /\ Return(NoResp)
       ELSE /\ Leak
            /\ Return(OnError(op, "listCollections failed"))
    /\ UNCHANGED << cfg_vars, collections, entries, now, op, submit_locals,
                    hf_vars, calls, attempt_number, method >>

\* a create_collection that drops a collection it finds and makes it anew
create_collection_anew(outcome) ==
    /\ pc = "create"
    /\ command' = outcome
    /\ IF outcome = "ok"
       THEN /\ collections' = collections \cup {"entries"}
            /\ entries' = <<>>
            /\ Close
       ELSE /\ Leak
            /\ UNCHANGED << collections, entries >>
    /\ Return(NoResp)
    /\ UNCHANGED << cfg_vars, now, op, submit_locals,
                    hf_vars, calls, attempt_number, method >>

\* lines 158-162: create_collection raises CollectionInvalid when the
\* collection has come to exist since the look at the names
create_collection(outcome) ==
    /\ pc = "create"
    /\ IF "entries" \in collections
       THEN /\ command' = "CollectionInvalid"
            /\ Leak
            /\ Return(OnError(op, "collection entries already exists"))
            /\ UNCHANGED collections
       ELSE /\ command' = outcome
            /\ IF outcome = "ok"
               THEN /\ collections' = collections \cup {"entries"}
                    /\ Close
                    /\ Return(NoResp)
               ELSE /\ Leak
                    /\ Return(OnError(op, "create failed"))
                    /\ UNCHANGED collections
    /\ UNCHANGED << cfg_vars, entries, now, op, submit_locals,
                    hf_vars, calls, attempt_number, method >>

\* ------------------------------------------------------- end of a request
\* the response is sent and the request's locals are dropped
Finish ==
    /\ pc = "done"
    /\ pc' = "idle"
    /\ op' = "idle"
    /\ entry' = Missing
    /\ result' = None
    /\ dominant' = None
    /\ label' = ""
    /\ score_value' = 0
    /\ attempt_number' = 0
    /\ method' = 0
    /\ client' = ""
    /\ resp' = NoResp
    /\ hfScript' = <<>>
    /\ hfPayload' = None
    /\ hfCalls' = 0
    /\ calls' = <<>>
    /\ command' = ""
    /\ classified_at' = 0
    /\ UNCHANGED << db_vars, cfg_vars >>

\* --------------------------------------------------------------------- Next
Next ==
    \/ /\ pc = "idle"
       /\ \E text \in Texts, script \in Scripts :
             \E payload \in IF HasOk(script) THEN Payloads ELSE {None} :
                submit_entry(text, script, payload)
    \/ \E outcome \in Outcomes : try_connection(outcome)
    \/ \E outcome \in {"ok", "error"}, t \in now..MaxClock : insert_one(outcome, t)
    \/ \E t \in 0..now, l \in Labels, c \in Confidences : peer_insert_one(t, l, c)
    \/ get_entries
    \/ \E outcome \in {"ok", "error"} : find(outcome)
    \/ health_check
    \/ \E outcome \in {"ok", "error"} : dbstats(outcome)
    \/ init_db
    \/ \E outcome \in {"ok", "error"} : list_collection_names(outcome)
    \/ \E outcome \in {"ok", "error"} : create_collection(outcome)
    \/ peer_create_collection
    \/ Finish

Spec == Init /\ [][Next]_vars

\* ===================================================================== claims
WellFormed == FlatLists \cup NestedLists

\* the list of pairs a well-formed body carries, whichever its shape
FlatOf(p) == IF p \in NestedLists THEN p.v[1] ELSE p

\* a submission whose text is non-empty and whose classification the
\* inference service answered at once with a well-formed body
ClassifiedNow ==
    /\ op = "submit"
    /\ Truthy(entry)
    /\ HF_API_KEY
    /\ hfScript[1] = HttpResp(200)
    /\ hfPayload \in WellFormed

\* every strategy failed on every pass of the retry
ConnectionExhausted ==
    /\ Len(calls) = stop_max_attempt_number * Len(connection_methods)
    /\ \A i \in 1..Len(calls) : calls[i].outcome = "failed"

\* C1: when the classification of a non-empty text succeeds and storage is
\* configured, but every connection strategy fails on every retry pass or
\* the insert fails, submit answers 200 with the classification result and
\* storage_status "not_stored": a gateway failure never becomes an error.
C1_StorageFailureDegrades ==
    (/\ ClassifiedNow
     /\ pc = "done"
     /\ MONGO_URI
     /\ ConnectionExhausted \/ command = "error")
    => /\ resp.status = 200
       /\ resp.body = [result |-> FlatOf(hfPayload), storage_status |-> "not_stored"]

C1_Witness ==
    /\ ClassifiedNow
    /\ pc = "done"
    /\ MONGO_URI
    /\ ConnectionExhausted
    /\ resp.status = 200

\* position of invocation i within its pass of get_db_connection
InPass(i) == ((i - 1) % Len(connection_methods)) + 1

\* C2: within a pass, strategies are invoked in declared order, a strategy
\* is invoked only after all those before it failed, nothing is invoked
\* after a success, and the client returned is the successful strategy's.
C2_FirstSuccessWins ==
    /\ \A i \in 1..Len(calls) :
          /\ calls[i].name = connection_methods[InPass(i)]
          /\ \A k \in 1..(i - 1) : calls[k].outcome = "failed"
          /\ calls[i].outcome = "ok" => i = Len(calls)
    /\ pc = "use" =>
          /\ Len(calls) > 0
          /\ calls[Len(calls)].outcome = "ok"
          /\ client = calls[Len(calls)].name
    /\ pc = "connect" => method = InPass(Len(calls) + 1)

C2_Witness ==
    /\ pc = "use"
    /\ Len(calls) = 3
    /\ client = "try_connection_without_ssl_validation"

\* texts that are missing, empty, or whitespace only
Blank == {Missing, "", "  "}

\* C3: with 429 on attempts 1 and 2 and 200 on attempt 3, classification in
\* submit (of a text that is not blank) succeeds and the result returned is that of attempt 3's body.
C3_RetryOn429 ==
    (/\ op = "submit"
     /\ pc = "done"
     /\ entry \notin Blank
     /\ HF_API_KEY
     /\ hfScript = << HttpResp(429), HttpResp(429), HttpResp(200) >>
     /\ hfPayload \in WellFormed)
    => /\ resp.status = 200
       /\ "result" \in DOMAIN resp.body
       /\ resp.body.result = FlatOf(hfPayload)

\* C4: when every attempt ends in 429 or a transport failure, submit calls
\* the inference service exactly as often as the retry budget allows, and
\* then fails.
C4_ExactlyBudgetCalls ==
    (/\ op = "submit"
     /\ pc = "done"
     /\ entry \notin Blank
     /\ HF_API_KEY
     /\ Len(hfScript) = MaxAttempts
     /\ \A i \in 1..Len(hfScript) : hfScript[i] \in Retryable)
    => /\ hfCalls = MaxAttempts
       /\ "error" \in DOMAIN resp.body

\* C5: a submission whose text is missing, empty or whitespace only is
\* answered 400 without a call of the inference service and without a
\* storage connection attempt.
C5_BlankRejected ==
    (op = "submit" /\ entry \in Blank)
    => /\ pc = "done"
       /\ resp.status = 400
       /\ hfCalls = 0
       /\ calls = <<>>

\* C6: a 200 answer whose body is an empty list, not a list, or a list with
\* an item that lacks label or score makes submit fail with an error, and
\* nothing is persisted.
C6_MalformedRejected ==
    (/\ op = "submit"
     /\ pc = "done"
     /\ entry \notin Blank
     /\ HF_API_KEY
     /\ hfScript[1] = HttpResp(200)
     /\ hfPayload \in Malformed)
    => /\ "error" \in DOMAIN resp.body
       /\ command # "ok"

\* C7: a body that is the flat list L and one that is the nested list [L]
\* normalise alike: whichever shape came, the result returned is L, and the
\* dominant pair, the label and the score persisted are those of L.
C7_FlatNestedSame ==
    ClassifiedNow =>
        LET L == FlatOf(hfPayload)
            flat == Classify(L)
            nested == Classify(JList(<<L>>))
        IN  /\ flat = nested
            /\ result = L
            /\ dominant = flat.dominant
            /\ label = flat.label
            /\ score_value = flat.score_value
            /\ pc = "done" =>
                  /\ "result" \in DOMAIN resp.body
                  /\ resp.body.result = L
            /\ (pc = "done" /\ command = "ok") =>
                  /\ entries[Len(entries)].label = flat.label
                  /\ entries[Len(entries)].score = flat.score_value

C7_Witness ==
    /\ ClassifiedNow
    /\ hfPayload \in NestedLists
    /\ Len(FlatOf(hfPayload).v) = 2
    /\ pc = "done"
    /\ command = "ok"
    /\ resp.body.result = FlatOf(hfPayload)

\* C8: the dominant pair is a pair of maximum score and, among pairs of
\* maximum score, the earliest in response order.
C8_DominantFirstMax ==
    ClassifiedNow =>
        LET items == FlatOf(hfPayload).v
            top == {i \in 1..Len(items) :
                       \A k \in 1..Len(items) : items[k].v.score <= items[i].v.score}
            first == CHOOSE i \in top : \A k \in top : i <= k
        IN  /\ dominant = items[first]
            /\ label = items[first].v.label

C8_Witness ==
    /\ ClassifiedNow
    /\ pc = "done"
    /\ FlatOf(hfPayload) =
          JList(<< Pair("POSITIVE", MaxScore), Pair("NEGATIVE", MaxScore) >>)
    /\ label = "POSITIVE"

\* C9: every entry persisted has a score whose sign agrees with its label,
\* and the entry a submission persists has the dominant pair's label and
\* score +c for POSITIVE, -c for NEGATIVE, c the dominant pair's confidence.
C9_SignedScore ==
    /\ \A i \in 1..Len(entries) :
          /\ entries[i].label = "POSITIVE" => entries[i].score >= 0
          /\ entries[i].label = "NEGATIVE" => entries[i].score <= 0
    /\ (op = "submit" /\ pc = "done" /\ command = "ok") =>
          LET e == entries[Len(entries)]
              c == dominant.v.score
          IN  /\ e.label = dominant.v.label
              /\ e.label = "POSITIVE" => e.score = c
              /\ e.label = "NEGATIVE" => e.score = 0 - c

C9_Witness ==
    /\ op = "submit"
    /\ pc = "done"
    /\ command = "ok"
    /\ entries[Len(entries)].label = "NEGATIVE"
    /\ entries[Len(entries)].score = 0 - MaxScore
    /\ dominant.v.score = MaxScore

\* C10: without a storage connection string, submit of a valid text whose
\* classification succeeds answers 200 with storage_status "not_stored",
\* /entries answers with an error, and no connection strategy is invoked.
C10_Unconfigured ==
    ~MONGO_URI =>
        /\ calls = <<>>
        /\ pc \notin {"connect", "use"}
        /\ (ClassifiedNow /\ pc = "done") =>
              /\ resp.status = 200
              /\ resp.body = [result |-> FlatOf(hfPayload), storage_status |-> "not_stored"]
        /\ (op = "entries" /\ pc = "done") =>
              /\ resp.status # 200
              /\ "error" \in DOMAIN resp.body

C10_Witness ==
    /\ ~MONGO_URI
    /\ ClassifiedNow
    /\ pc = "done"
    /\ resp.body.storage_status = "not_stored"

\* a step of the handler followed, as opposed to a step of another worker
OwnStep == pc' # pc \/ calls' # calls

\* C11: without a classifier credential, submit of a non-empty text ends at
\* once with the configuration error: no request goes to the inference
\* service, no connection strategy is invoked, no database command is
\* issued, and the step leaves the stored entries as they were.
C11_NoCredentialFailsFast ==
    /\ [](( op = "submit" /\ Truthy(entry) /\ ~HF_API_KEY)
          => /\ pc = "done"
             /\ resp = ErrorResp(500, "Hugging Face API key is missing")
             /\ hfCalls = 0
             /\ calls = <<>>
             /\ command = "")
    /\ [][(op' = "submit" /\ OwnStep /\ ~HF_API_KEY) => entries' = entries]_vars

C11_Witness ==
    /\ op = "submit"
    /\ entry = "good day"
    /\ ~HF_API_KEY
    /\ MONGO_URI
    /\ pc = "done"
    /\ resp.status = 500
    /\ hfCalls = 0

\* C12: the status of a health report is "unconfigured" exactly when no
\* storage is configured, "healthy" exactly when storage is configured and
\* the connect and the read succeed, "degraded" exactly when storage is
\* configured and the connect or the read fails; a report that is not
\* "healthy" is answered 200, never 500.
C12_HealthStatus ==
    (op = "health" /\ pc = "done") =>
        /\ resp.body.status = "unconfigured" <=> ~MONGO_URI
        /\ resp.body.status = "healthy" <=> (MONGO_URI /\ command = "ok")
        /\ resp.body.status = "degraded" <=> (MONGO_URI /\ command # "ok")
        /\ resp.body.status # "healthy" => resp.status = 200

\* the orders in which n documents can be listed
Orders(n) == {p \in [1..n -> 1..n] : \A i, j \in 1..n : i # j => p[i] # p[j]}

\* C13: a history that is fetched has one label and one score per stored
\* entry, listed by ascending timestamp whatever the order of insertion,
\* and count is the number of stored entries; from an empty store it is
\* labels = [], scores = [], count = 0, answered 200.
C13_HistoryAscending ==
    (op = "entries" /\ pc = "done" /\ command = "ok") =>
        LET n == Len(entries) IN
        /\ resp.status = 200
        /\ resp.body.count = n
        /\ \E p \in Orders(n) :
              /\ \A i, j \in 1..n : i < j =>
                    entries[p[i]].timestamp <= entries[p[j]].timestamp
              /\ resp.body.labels = [i \in 1..n |-> strftime(entries[p[i]].timestamp)]
              /\ resp.body.scores = [i \in 1..n |-> entries[p[i]].score]
        /\ n = 0 => resp.body = [labels |-> <<>>, scores |-> <<>>, count |-> 0]

C13_Witness ==
    /\ op = "entries"
    /\ pc = "done"
    /\ command = "ok"
    /\ Len(entries) = 2
    /\ entries[1].timestamp > entries[2].timestamp
    /\ entries[1].score # entries[2].score
    /\ resp.body.scores = << entries[2].score, entries[1].score >>
    /\ resp.body.labels[1] < resp.body.labels[2]

\* the pass in which invocation i is made
PassOf(i) == ((i - 1) \div 4) + 1

\* C14: the retried connect makes at most 3 passes over the 4 strategies:
\* a pass begins only after every invocation of the passes before it
\* failed, a success is the last invocation made, and a connect that fails
\* has made exactly 3 passes, 12 invocations, all failed.
C14_AtMostThreePasses ==
    /\ Len(calls) <= 12
    /\ \A i \in 1..Len(calls) : PassOf(i) <= 3
    /\ \A i \in 1..Len(calls) :
          PassOf(i) > 1 => \A k \in 1..(4 * (PassOf(i) - 1)) : calls[k].outcome = "failed"
    /\ \A i \in 1..Len(calls) : calls[i].outcome = "ok" => (i = Len(calls) /\ pc # "connect")
    /\ pc = "connect" => (Len(calls) < 12 /\ attempt_number = PassOf(Len(calls) + 1))
    /\ (pc \in {"use", "create"} \/ command # "") =>
          (Len(calls) > 0 /\ calls[Len(calls)].outcome = "ok")
    /\ (pc = "done" /\ MONGO_URI /\ command = ""
           /\ (op = "submit" => ClassifiedNow)) =>
          /\ Len(calls) = 12
          /\ \A i \in 1..12 : calls[i].outcome = "failed"

C14_Witness ==
    /\ op = "entries"
    /\ pc = "done"
    /\ Len(calls) = 12
    /\ calls[12].outcome = "failed"
    /\ resp = ErrorResp(500, "All connection methods failed")

\* C15: every client a handler opened is closed when the handler returns,
\* whether it succeeded, its database command failed after the connect, or
\* the ping of a strategy failed after the client was constructed: between
\* requests, and when a response is returned, no client is open.
C15_NoClientLeftOpen ==
    pc \in {"idle", "done"} => openClients = 0

\* C16: init_db creates the collection only when it is absent, and however
\* often it runs, also when the collection comes to exist between its look
\* at the names and its create, it leaves a store that has the collection
\* as it was, removes and alters no entry, and raises nothing to its caller.
C16_BootstrapIdempotent ==
    /\ []((op = "init_db" /\ pc = "done") =>
            /\ resp = NoResp
            /\ command \in {"ok", "CollectionInvalid"} => "entries" \in collections)
    /\ [][(op = "init_db" /\ OwnStep) =>
            /\ entries' = entries
            /\ collections \subseteq collections'
            /\ collections' \subseteq collections \cup {"entries"}
            /\ "entries" \in collections => collections' = collections]_vars

C16_Witness ==
    /\ op = "init_db"
    /\ pc = "done"
    /\ command = "CollectionInvalid"
    /\ "entries" \in collections
    /\ Len(entries) = 1
    /\ resp = NoResp

\* C17: when the inference service answers with a status that is neither
\* 2xx nor 429, submit has made exactly one call, returns an error and has
\* touched no storage; and when it answers 2xx with a well-formed body,
\* submit does not return an error.
C17_UpstreamStatus ==
    (/\ op = "submit"
     /\ pc = "done"
     /\ entry \notin Blank
     /\ HF_API_KEY
     /\ ~hfScript[1].raised)
    => LET code == hfScript[1].status_code IN
       /\ (code \notin 200..299 /\ code # 429) =>
             /\ hfCalls = 1
             /\ "error" \in DOMAIN resp.body
             /\ resp.status \notin 200..299
             /\ calls = <<>>
             /\ command = ""
       /\ (code \in 200..299 /\ hfPayload \in WellFormed) =>
             "error" \notin DOMAIN resp.body

\* C18: the timestamp of the entry a submission persists is the time of its
\* classification, read before the first connection attempt: whatever time
\* the connection strategies and retries take, and whatever other workers
\* store meanwhile, the entry carries what the clock showed then.
C18_TimestampAtClassification ==
    (op = "submit" /\ pc = "done" /\ entry \notin Blank /\ command = "ok") =>
        entries[Len(entries)].timestamp = classified_at

\* C19: a submission whose dominant label is neither POSITIVE nor NEGATIVE
\* (whatever its confidence, here a positive one) persists no entry: the
\* label is not given the sign of a default.
C19_UnseenLabelNotPersisted ==
    (/\ op = "submit"
     /\ pc = "done"
     /\ entry \notin Blank
     /\ hfPayload \in WellFormed
     /\ dominant # None
     /\ dominant.v.label \notin {"POSITIVE", "NEGATIVE"}
     /\ dominant.v.score > 0)
    => command # "ok"

\* the answer r reports the entry as stored
Stored(r) == "storage_status" \in DOMAIN r.body /\ r.body.storage_status = "stored"

====
